---------------------------- MODULE Spec2Model ----------------------------
(***************************************************************************)
(* Model of protoc-gen-mdbook: descriptor resolution (src/src/proto.rs)    *)
(* and the view construction for rendering (src/src/render.rs).            *)
(*                                                                         *)
(* Strings are sequences of one-character strings, offsets are 0-based as  *)
(* in Rust.  Option<T> is a sequence of length 0 (None) or 1 (Some).  A    *)
(* function that can panic returns Panic or Ok(value).                     *)
(***************************************************************************)
EXTENDS Integers, Sequences, FiniteSets, TLC

VARIABLES
    pc,         \* position of the run within the specification at hand
    original,   \* the &str handed to FullyQualifiedTypeName::from
    fqn,        \* what FullyQualifiedTypeName::from returned
    request,    \* the CodeGeneratorRequest: its proto_file list
    types,      \* AllTypes: package name -> Vec<Types>
    ty,         \* the start type handed to gather_types, as a TypeRef
    result,     \* what gather_types returned
    lookup_info,    \* the SourceCodeInfo handed to get_description
    lookup_path,    \* the path handed to get_description
    lookup_result,  \* what get_description returned
    file_to_generate,   \* the file name handed to get_services
    services,   \* what get_services returned: Result<Vec<proto::Service>>
    page        \* what Page::from returned: Vec<render::Service>

vars == <<pc, original, fqn, request, types, ty, result, lookup_info, lookup_path, lookup_result,
          file_to_generate, services, page>>

\* the variables of the comment lookup and of the generation of a page
commentVars == <<lookup_info, lookup_path, lookup_result>>

genVars == <<file_to_generate, services, page>>

----------------------------------------------------------------------------
(* Bounds of the model *)

\* longest string handed to FullyQualifiedTypeName::from
MaxLen == 6

\* most fields the three messages of a closure request have in all
MaxEdges == 3

\* most fields of a message, and greatest field number, of an index request
MaxFields == 3

\* most values of an enum of an index request
MaxValues == 3

\* most locations of the comment table handed to get_description
MaxLocations == 2

\* most methods of the service of a generation request
MaxMethods == 3

\* stack frames gather_types may take before the stack is exhausted; a type
\* graph of the closure specification without a cycle needs at most four
MaxStack == 6

----------------------------------------------------------------------------
(* Option, panics *)

None == <<>>

Some(x) == <<x>>

\* a panic of the process (unwrap of None, slice index out of order)
Panic == [panic |-> TRUE, why |-> "panic"]

\* the process dies of stack exhaustion
Overflow == [panic |-> TRUE, why |-> "stack overflow"]

Ok(v) == [panic |-> FALSE, val |-> v]

\* the value of a variable a specification does not use
Idle == "idle"

----------------------------------------------------------------------------
(* Strings *)

\* the characters strings are made of: the dot and two other characters
Chars == {".", "a", "B"}

\* all strings of at most n characters
Strings(n) == UNION {[1..k -> Chars] : k \in 0..n}

\* str::find(c): byte offset of the first c, or None
Find(s, c) ==
    IF \E i \in 1..Len(s) : s[i] = c
    THEN Some((CHOOSE i \in 1..Len(s) : s[i] = c /\ \A j \in 1..(i - 1) : s[j] # c) - 1)
    ELSE None

\* a bug str::rfind could be replaced by: the first occurrence after the leading one
RFindSecond(s, c) ==
    IF \E i \in 2..Len(s) : s[i] = c
    THEN Some((CHOOSE i \in 2..Len(s) : s[i] = c /\ \A j \in 2..(i - 1) : s[j] # c) - 1)
    ELSE Find(s, c)

\* str::rfind(c): byte offset of the last c, or None
RFind(s, c) ==
    IF \E i \in 1..Len(s) : s[i] = c
    THEN Some((CHOOSE i \in 1..Len(s) : s[i] = c /\ \A j \in (i + 1)..Len(s) : s[j] # c) - 1)
    ELSE None

\* &s[from..to]: panics when from > to or to > len
Slice(s, from, to) ==
    IF from <= to /\ to <= Len(s) THEN Ok(SubSeq(s, from + 1, to)) ELSE Panic

\* number of occurrences of c in s
Count(s, c) == Cardinality({i \in 1..Len(s) : s[i] = c})

----------------------------------------------------------------------------
(* proto.rs: FullyQualifiedTypeName *)

\* impl From<&str> for FullyQualifiedTypeName
FullyQualifiedTypeNameFrom(s) ==
    LET start == Find(s, ".")
        end   == RFind(s, ".")
    IN  IF start = None \/ end = None
        THEN Panic                                  \* unwrap() of None
        ELSE LET package == Slice(s, start[1] + 1, end[1])
                 name    == Slice(s, end[1] + 1, Len(s))
             IN  IF package.panic \/ name.panic
                 THEN Panic                         \* slice index out of order
                 ELSE Ok([original |-> s, package |-> package.val, name |-> name.val])

----------------------------------------------------------------------------
(* proto.rs: comment lookup *)

\* Option<String>::as_deref().unwrap_or(""): the accessor of an optional
\* string field of a descriptor (leading_comments(), package(), ...)
OrEmpty(o) == IF o = None THEN "" ELSE o[1]

\* A trailing comment is its text up to the last character that is not white
\* space, and the white space behind it.
Comment(text, space) == [text |-> text, space |-> space]

\* Location::trailing_comments(): the comment, or the empty string
OrEmptyComment(o) == IF o = None THEN Comment("", "") ELSE o[1]

\* str::trim_end
TrimEnd(c) == Comment(c.text, "")

\* the same accessor for a string of the model's characters
OrEmptyName(o) == IF o = None THEN <<>> ELSE o[1]

\* Iterator::find on a SourceCodeInfo's locations: the first location whose
\* path equals `path` (Vec<i32> == [i32]: same length, same values), or None
FindLocation(info, path) ==
    LET hits == {i \in 1..Len(info) : info[i].path = path}
    IN  IF hits = {} THEN None
        ELSE Some(info[CHOOSE i \in hits : \A j \in hits : i <= j])

\* a bug of the lookup: a location whose path is a prefix of `path` matches too
GetDescriptionByPrefix(info, path) ==
    LET hits == {i \in 1..Len(info) :
                    /\ Len(info[i].path) <= Len(path)
                    /\ info[i].path = SubSeq(path, 1, Len(info[i].path))}
    IN  IF hits = {} THEN ""
        ELSE OrEmpty(info[CHOOSE i \in hits : \A j \in hits : i <= j].leading_comments)

\* fn get_description
GetDescription(info, path) ==
    LET l == FindLocation(info, path)
    IN  IF l = None THEN "" ELSE OrEmpty(l[1].leading_comments)

\* fn as_i32: the indices of the model are far below 2^31, where the cast
\* changes nothing
AsI32(idx) == idx

----------------------------------------------------------------------------
(* proto.rs: fields *)

\* fn scalar_type_name
ScalarTypeName(t) ==
    CASE t = "Double" -> <<"d", "o", "u", "b", "l", "e">>
      [] t = "Float" -> <<"f", "l", "o", "a", "t">>
      [] t = "Int64" -> <<"i", "n", "t", "6", "4">>
      [] t = "Uint64" -> <<"u", "i", "n", "t", "6", "4">>
      [] t = "Int32" -> <<"i", "n", "t", "3", "2">>
      [] t = "Fixed32" -> <<"f", "i", "x", "e", "d", "3", "2">>
      [] t = "Fixed64" -> <<"f", "i", "x", "e", "d", "6", "4">>
      [] t = "Bool" -> <<"b", "o", "o", "l">>
      [] t = "String" -> <<"s", "t", "r", "i", "n", "g">>
      [] t = "Group" -> <<"g", "r", "o", "u", "p">>
      [] t = "Message" -> <<>>
      [] t = "Bytes" -> <<"b", "y", "t", "e", "s">>
      [] t = "Uint32" -> <<"u", "i", "n", "t", "3", "2">>
      [] t = "Enum" -> <<"e", "n", "u", "m">>
      [] t = "Sfixed32" -> <<"s", "f", "i", "x", "e", "d", "3", "2">>
      [] t = "Sfixed64" -> <<"s", "f", "i", "x", "e", "d", "6", "4">>
      [] t = "Sint32" -> <<"s", "i", "n", "t", "3", "2">>
      [] t = "Sint64" -> <<"s", "i", "n", "t", "6", "4">>

\* impl From<&FieldDescriptorProto> for FieldType
FieldTypeFrom(field) ==
    IF field.type_name # None
    THEN LET name == FullyQualifiedTypeNameFrom(field.type_name[1])
         IN  IF name.panic THEN Panic
             ELSE Ok([kind |-> "Custom", name |-> name.val])
    ELSE Ok([kind |-> "WellKnown", ty |-> field.type])

\* FieldType::name
FieldTypeName(fty) ==
    IF fty.kind = "WellKnown" THEN ScalarTypeName(fty.ty) ELSE fty.name.name

\* Field::from
FieldFrom(field, info, path) ==
    LET fty      == FieldTypeFrom(field)
        location == FindLocation(info, path)
    IN  IF fty.panic THEN Panic
        ELSE Ok([name             |-> field.name,
                 ty               |-> fty.val,
                 number           |-> field.number,
                 optional         |-> field.proto3_optional,
                 repeated         |-> field.label = Some("Repeated"),
                 leading_comments |-> IF location = None THEN ""
                                      ELSE OrEmpty(location[1].leading_comments),
                 trailing_comments |-> IF location = None THEN Comment("", "")
                                       ELSE OrEmptyComment(location[1].trailing_comments)])

\* EnumValue::from
EnumValueFrom(value, info, path) ==
    LET location == FindLocation(info, path)
    IN  [name             |-> value.name,
         number           |-> value.number,
         leading_comments |-> IF location = None THEN ""
                              ELSE OrEmpty(location[1].leading_comments),
         trailing_comments |-> IF location = None THEN Comment("", "")
                               ELSE TrimEnd(OrEmptyComment(location[1].trailing_comments))]

----------------------------------------------------------------------------
(* slice::sort_by(|a, b| a.number.cmp(&b.number)): a stable sort *)

\* a bug of the sort: an element goes before the elements of the same number
InsertBeforeEqual(sorted, x) ==
    LET k == Cardinality({i \in 1..Len(sorted) : sorted[i].number < x.number})
    IN  SubSeq(sorted, 1, k) \o <<x>> \o SubSeq(sorted, k + 1, Len(sorted))

\* x goes behind every element of `sorted` whose number is not greater
InsertByNumber(sorted, x) ==
    LET k == Cardinality({i \in 1..Len(sorted) : sorted[i].number <= x.number})
    IN  SubSeq(sorted, 1, k) \o <<x>> \o SubSeq(sorted, k + 1, Len(sorted))

RECURSIVE SortByNumber(_)
SortByNumber(s) ==
    IF s = <<>> THEN <<>>
    ELSE InsertByNumber(SortByNumber(SubSeq(s, 1, Len(s) - 1)), s[Len(s)])

----------------------------------------------------------------------------
(* proto.rs: messages, enums, the type index *)

\* Vec::iter().map(f).collect() where f may panic: `rs` holds f's results
Collect(rs) ==
    IF \E i \in 1..Len(rs) : rs[i].panic THEN Panic
    ELSE Ok([i \in 1..Len(rs) |-> rs[i].val])

\* MessageType::from
RECURSIVE MessageTypeFrom(_, _, _, _)
MessageTypeFrom(message_type, idx, info, depth) ==
    LET description == GetDescription(info, <<4, idx>>)
        fields == Collect([i \in 1..Len(message_type.field) |->
                      FieldFrom(message_type.field[i], info, <<4, idx, 2, AsI32(i - 1)>>)])
        nested == Collect([i \in 1..Len(message_type.nested_type) |->
                      MessageTypeFrom(message_type.nested_type[i], idx, info, depth + 1)])
    IN  IF fields.panic \/ nested.panic THEN Panic
        ELSE Ok([kind        |-> "Message",
                 name        |-> message_type.name,
                 description |-> description,
                 fields      |-> SortByNumber(fields.val),
                 nested      |-> nested.val,
                 depth       |-> depth])

\* EnumType::from
EnumTypeFrom(enum_type, idx, info) ==
    [kind        |-> "Enum",
     name        |-> enum_type.name,
     description |-> GetDescription(info, <<5, idx>>),
     values      |-> SortByNumber([i \in 1..Len(enum_type.value) |->
                        EnumValueFrom(enum_type.value[i], info, <<5, idx, 2, AsI32(i - 1)>>)])]

\* Types::has_name
HasName(t, name) == t.name = name

\* HashMap::entry(package).or_default(): the bucket, empty when new
Bucket(map, package) == IF package \in DOMAIN map THEN map[package] ELSE <<>>

\* result.entry(package).or_default().append(&mut more)
AppendTo(map, package, more) ==
    [p \in DOMAIN map \cup {package} |->
        IF p = package THEN Bucket(map, package) \o more ELSE map[p]]

\* the body of get_types' loop for one file, on the map built so far
GetTypesOfFile(map, proto) ==
    IF proto.source_code_info = None THEN Panic          \* unwrap() of None
    ELSE
    LET info == proto.source_code_info[1]
        message_types == Collect([i \in 1..Len(proto.message_type) |->
                             MessageTypeFrom(proto.message_type[i], AsI32(i - 1), info, 0)])
        enum_types == [i \in 1..Len(proto.enum_type) |->
                          EnumTypeFrom(proto.enum_type[i], AsI32(i - 1), info)]
    IN  IF message_types.panic THEN Panic
        ELSE Ok(AppendTo(AppendTo(map, proto.package, message_types.val),
                         proto.package, enum_types))

\* get_types on the first n files of the request
RECURSIVE GetTypesUpTo(_, _)
GetTypesUpTo(proto_file, n) ==
    IF n = 0 THEN Ok(<<>>)
    ELSE LET before == GetTypesUpTo(proto_file, n - 1)
         IN  IF before.panic THEN Panic
             ELSE GetTypesOfFile(before.val, proto_file[n])

\* fn get_types
GetTypes(req) == GetTypesUpTo(req.proto_file, Len(req.proto_file))

----------------------------------------------------------------------------
(* render.rs: the closure of the types a type's fields name *)

\* a &Types borrowed from the index: its bucket and its place in it
TypeRef(package, idx) == [package |-> package, idx |-> idx]

\* the Types value a reference points at
Deref(tys, r) == tys[r.package][r.idx]

\* Vec<&Types>::contains(&custom_type): equality of the values pointed at
\* (the derived PartialEq of Types), not of the addresses
Contains(tys, acc, r) == \E k \in 1..Len(acc) : Deref(tys, acc[k]) = Deref(tys, r)

\* the entries of a field's bucket the inner loop stops at, from entry j on:
\* those of the field's type name (none when types.get() finds no bucket)
Named(tys, fty, j) ==
    IF fty.name.package \notin DOMAIN tys THEN {}
    ELSE {k \in j..Len(tys[fty.name.package]) :
             HasName(tys[fty.name.package][k], FieldTypeName(fty))}

\* fn gather_types(ty, types), with `fuel` stack frames left: each call takes
\* one, and a call with none left exhausts the stack.
\* GatherLoop is the pair of nested loops, at field i and bucket entry j,
\* with `acc` the result so far; entries of another name are stepped over.
RECURSIVE GatherTypes(_, _, _)
RECURSIVE GatherLoop(_, _, _, _, _, _)
GatherLoop(tys, fields, i, j, acc, fuel) ==
    IF i > Len(fields) THEN Ok(acc)
    ELSE IF fields[i].ty.kind # "Custom" \/ Named(tys, fields[i].ty, j) = {}
    THEN GatherLoop(tys, fields, i + 1, 1, acc, fuel)
    ELSE
    LET k == CHOOSE k \in Named(tys, fields[i].ty, j) :
                 \A l \in Named(tys, fields[i].ty, j) : k <= l
        custom_type == TypeRef(fields[i].ty.name.package, k)
    IN  IF Contains(tys, acc, custom_type)
        THEN GatherLoop(tys, fields, i, k + 1, acc, fuel)
        ELSE LET more == GatherTypes(tys, custom_type, fuel - 1)
             IN  IF more.panic THEN more
                 ELSE GatherLoop(tys, fields, i, k + 1,
                                 (acc \o <<custom_type>>) \o more.val, fuel)

GatherTypes(tys, t, fuel) ==
    IF fuel = 0 THEN Overflow
    ELSE IF Deref(tys, t).kind = "Message"
         THEN GatherLoop(tys, Deref(tys, t).fields, 1, 1, <<>>, fuel)
         ELSE Ok(<<>>)

----------------------------------------------------------------------------
(* proto.rs: services and methods *)

\* anyhow::Result: Ok(value) or Err(message)
ResultOk(v) == [is_ok |-> TRUE, val |-> v]

ResultErr(e) == [is_ok |-> FALSE, err |-> e]

\* Option<bool>::unwrap_or(false): the accessor of an optional bool field
OrFalse(o) == IF o = None THEN FALSE ELSE o[1]

\* CallType::from with the two flags taken for each other
CallTypeFromSwapped(method) ==
    LET server == OrFalse(method.client_streaming)
        client == OrFalse(method.server_streaming)
    IN  CASE server /\ client   -> "BidiStreaming"
          [] server /\ ~client  -> "ServerStreaming"
          [] ~server /\ client  -> "ClientStreaming"
          [] ~server /\ ~client -> "Unary"

\* impl From<&MethodDescriptorProto> for CallType
CallTypeFrom(method) ==
    LET server == OrFalse(method.server_streaming)
        client == OrFalse(method.client_streaming)
    IN  CASE server /\ client   -> "BidiStreaming"
          [] server /\ ~client  -> "ServerStreaming"
          [] ~server /\ client  -> "ClientStreaming"
          [] ~server /\ ~client -> "Unary"

\* options.as_ref().and_then(|opt| opt.deprecated).unwrap_or(false)
Deprecated(options) == IF options = None THEN FALSE ELSE OrFalse(options[1].deprecated)

\* bucket.iter().find(|ty| ty.has_name(name)): the first entry of that name,
\* as a reference into the bucket of `package`, or None
FindNamed(tys, package, name) ==
    LET hits == {k \in 1..Len(tys[package]) : HasName(tys[package][k], name)}
    IN  IF hits = {} THEN None
        ELSE Some(TypeRef(package, CHOOSE k \in hits : \A l \in hits : k <= l))

\* proto's Method::from; `path` is the path of the service's methods
MethodFrom(method, tys, path, idx, info) ==
    LET description == GetDescription(info, path \o <<idx>>)
        name == FullyQualifiedTypeNameFrom(OrEmptyName(method.input_type))
    IN  IF name.panic THEN Panic
        ELSE IF name.val.package \notin DOMAIN tys THEN Panic    \* types.get().unwrap()
        ELSE
        LET input_type == FindNamed(tys, name.val.package, name.val.name)
        IN  IF input_type = None THEN Panic                      \* find().unwrap()
            ELSE
            LET name2 == FullyQualifiedTypeNameFrom(OrEmptyName(method.output_type))
            IN  IF name2.panic THEN Panic
                ELSE
                \* the bucket is still the one of the input type's package
                LET output_type == FindNamed(tys, name.val.package, name2.val.name)
                IN  IF output_type = None THEN Panic             \* find().unwrap()
                    ELSE Ok([name        |-> method.name,
                             call_type   |-> CallTypeFrom(method),
                             description |-> description,
                             deprecated  |-> Deprecated(method.options),
                             input_type  |-> input_type[1],
                             output_type |-> output_type[1]])

\* proto's Service::from
ServiceFrom(proto, service, tys, idx, info) ==
    LET methods == Collect([i \in 1..Len(service.method) |->
                       MethodFrom(service.method[i], tys, <<6, idx, 2>>, AsI32(i - 1), info)])
    IN  IF methods.panic THEN Panic
        ELSE Ok([name        |-> service.name,
                 package     |-> proto.package,
                 description |-> GetDescription(info, <<6, idx>>),
                 deprecated  |-> Deprecated(service.options),
                 methods     |-> methods.val])

\* fn get_services
GetServices(req, file, tys) ==
    LET found == {n \in 1..Len(req.proto_file) : req.proto_file[n].name = file}
    IN  IF found = {} THEN Ok(ResultErr("not found"))
        ELSE
        LET proto == req.proto_file[CHOOSE n \in found : \A m \in found : n <= m]
        IN  IF proto.source_code_info = None THEN Ok(ResultErr("no source code info"))
            ELSE
            LET list == Collect([i \in 1..Len(proto.service) |->
                            ServiceFrom(proto, proto.service[i], tys, AsI32(i - 1),
                                        proto.source_code_info[1])])
            IN  IF list.panic THEN Panic ELSE Ok(ResultOk(list.val))

----------------------------------------------------------------------------
(* render.rs: the views of methods, services and the page *)

\* render's Method::from
RenderMethodFrom(value, tys) ==
    LET input  == GatherTypes(tys, value.input_type, MaxStack)
        output == GatherTypes(tys, value.output_type, MaxStack)
    IN  IF input.panic \/ output.panic THEN Overflow
        ELSE Ok([name         |-> value.name,
                 call_type    |-> value.call_type,
                 deprecated   |-> value.deprecated,
                 description  |-> value.description,
                 input_types  |-> <<value.input_type>> \o input.val,
                 output_types |-> <<value.output_type>> \o output.val])

\* a bug of the partition: the two lists are bound the other way round
PartitionSwapped(methods) ==
    <<SelectSeq(methods, LAMBDA m : ~m.deprecated),
      SelectSeq(methods, LAMBDA m : m.deprecated)>>

\* Iterator::partition(|m| m.deprecated): those the closure accepts, and
\* the others, each in the order of the iterator
Partition(methods) ==
    <<SelectSeq(methods, LAMBDA m : m.deprecated),
      SelectSeq(methods, LAMBDA m : ~m.deprecated)>>

\* render's Service::from
RenderServiceFrom(value, tys) ==
    LET views == Collect([i \in 1..Len(value.methods) |->
                     RenderMethodFrom(value.methods[i], tys)])
    IN  IF views.panic THEN Overflow
        ELSE Ok([name               |-> value.name,
                 package            |-> value.package,
                 description        |-> value.description,
                 deprecated         |-> value.deprecated,
                 methods            |-> Partition(views.val)[2],
                 deprecated_methods |-> Partition(views.val)[1]])

\* Page::from
PageFrom(list, tys) ==
    LET views == Collect([i \in 1..Len(list) |-> RenderServiceFrom(list[i], tys)])
    IN  IF views.panic THEN Overflow ELSE Ok([services |-> views.val])

----------------------------------------------------------------------------
(* Specification of FullyQualifiedTypeName::from on arbitrary strings *)

InitName ==
    /\ pc = "start"
    /\ original \in Strings(MaxLen)
    /\ fqn = Idle
    /\ request = Idle /\ types = Idle /\ ty = Idle /\ result = Idle
    /\ lookup_info = Idle /\ lookup_path = Idle /\ lookup_result = Idle
    /\ file_to_generate = Idle /\ services = Idle /\ page = Idle

\* one call of FullyQualifiedTypeName::from(original)
ParseName ==
    /\ pc = "start"
    /\ fqn' = FullyQualifiedTypeNameFrom(original)
    /\ pc' = IF fqn'.panic THEN "panic" ELSE "done"
    /\ UNCHANGED <<original, request, types, ty, result, commentVars, genVars>>

NextName == ParseName

SpecName == InitName /\ [][NextName]_vars

(***************************************************************************)
(* C5: parsing a type reference with fewer than two dots fails with a      *)
(* MalformedTypeReference parse failure and is not a crash.                *)
(* The code has no failure value to return (From is infallible): position  *)
(* "panic" is the crash, "done" a returned name.                           *)
(***************************************************************************)
C5_FewDotsIsParseFailureNotCrash ==
    (pc # "start" /\ Count(original, ".") < 2) => (pc # "panic" /\ pc # "done")

(***************************************************************************)
(* C6: for a reference that starts with a dot and holds at least two dots, *)
(* the parse succeeds, name is the text after the last dot (so it holds no *)
(* dot), package the text strictly between the first and the last dot, and *)
(* "." + package + "." + name is the original reference.                   *)
(***************************************************************************)
C6_PackageBetweenFirstAndLastDot ==
    (pc # "start" /\ Len(original) >= 1 /\ original[1] = "." /\ Count(original, ".") >= 2)
        => /\ pc = "done"
           /\ Count(fqn.val.name, ".") = 0
           /\ <<".">> \o fqn.val.package \o <<".">> \o fqn.val.name = original
           /\ fqn.val.original = original

\* ".a.a.B" has been parsed: the package itself holds a dot
C6_Witness ==
    /\ pc = "done"
    /\ original = <<".", "a", ".", "a", ".", "B">>
    /\ fqn.val.package = <<"a", ".", "a">>
    /\ fqn.val.name = <<"B">>

----------------------------------------------------------------------------
(* Specification of gather_types on the index get_types builds *)

\* a type reference as written in a descriptor: ".package.Name"
QName(package, name) == (<<".">> \o package) \o (<<".">> \o name)

\* the type names a field of the closure specification may carry: the three
\* messages and the enum of package p, message N of package q, a name that
\* bucket q lacks, and a name in a package no file declares
FieldTargets ==
    {QName(<<"p">>, <<"M">>), QName(<<"p">>, <<"N">>), QName(<<"p">>, <<"O">>),
     QName(<<"p">>, <<"E">>), QName(<<"q">>, <<"N">>), QName(<<"q">>, <<"M">>),
     QName(<<"x">>, <<"M">>)}

\* a FieldDescriptorProto of a custom type, the number-th of its message
CustomField(number, type_name) ==
    [name            |-> <<"f">>,
     number          |-> number,
     type_name       |-> Some(type_name),
     type            |-> "Message",
     label           |-> None,
     proto3_optional |-> FALSE]

\* a DescriptorProto whose fields carry the type names `targets`, in order
MessageOf(name, targets) ==
    [name        |-> name,
     field       |-> [i \in 1..Len(targets) |-> CustomField(i, targets[i])],
     nested_type |-> <<>>,
     enum_type   |-> <<>>]

\* a FileDescriptorProto with an empty comment table
FileOf(name, package, message_type, enum_type, service) ==
    [name             |-> name,
     package          |-> package,
     source_code_info |-> Some(<<>>),
     message_type     |-> message_type,
     enum_type        |-> enum_type,
     service          |-> service]

\* the requests of the closure specification, whose three messages have at
\* most MaxEdges fields in all: file f1 (package p) declares
\* messages M, N, O with `m`, `n`, `o` the type names of their fields, and
\* enum E; file f2 (package q) declares a message N without fields
ClosureRequest(m, n, o) ==
    [proto_file |-> <<
        FileOf(<<"f", "1">>, <<"p">>,
               <<MessageOf(<<"M">>, m), MessageOf(<<"N">>, n), MessageOf(<<"O">>, o)>>,
               <<[name |-> <<"E">>, value |-> <<>>]>>, <<>>),
        FileOf(<<"f", "2">>, <<"q">>, <<MessageOf(<<"N">>, <<>>)>>, <<>>, <<>>)>>]

\* all sequences of exactly k field targets
Targets(k) == [1..k -> FieldTargets]

InitClosure ==
    /\ pc = "start"
    /\ \E km \in 0..MaxEdges : \E kn \in 0..(MaxEdges - km) : \E ko \in 0..(MaxEdges - km - kn) :
          \E m \in Targets(km), n \in Targets(kn), o \in Targets(ko) :
              request = ClosureRequest(m, n, o)
    /\ types = GetTypes(request).val
    /\ ty = Idle
    /\ result = Idle
    /\ original = Idle /\ fqn = Idle
    /\ lookup_info = Idle /\ lookup_path = Idle /\ lookup_result = Idle
    /\ file_to_generate = Idle /\ services = Idle /\ page = Idle

\* every reference into the index
AllRefs(tys) == UNION {{TypeRef(p, i) : i \in 1..Len(tys[p])} : p \in DOMAIN tys}

\* one call of gather_types(t, types), as render's Method::from makes it for
\* a method's input or output type t
Gather ==
    /\ pc = "start"
    /\ \E t \in AllRefs(types) :
          /\ ty' = t
          /\ result' = GatherTypes(types, t, MaxStack)
    /\ pc' = IF result'.panic THEN "overflow" ELSE "done"
    /\ UNCHANGED <<original, fqn, request, types, commentVars, genVars>>

NextClosure == Gather

SpecClosure == InitClosure /\ [][NextClosure]_vars

(***************************************************************************)
(* C1: gather_types terminates on every finite type index, also one with a *)
(* self-referencing message or a reference cycle; on the cycle M -> N,     *)
(* N -> O, O -> M the closure of M is exactly [N, O].                      *)
(* Position "overflow" is the call that never returns: the recursion has   *)
(* used up the stack.                                                      *)
(***************************************************************************)
C1_GatherTerminatesOnCycles ==
    /\ pc # "overflow"
    /\ (/\ pc = "done"
        /\ request = ClosureRequest(<<QName(<<"p">>, <<"N">>)>>,
                                    <<QName(<<"p">>, <<"O">>)>>,
                                    <<QName(<<"p">>, <<"M">>)>>)
        /\ ty = TypeRef(<<"p">>, 1))
       => result.val = <<TypeRef(<<"p">>, 2), TypeRef(<<"p">>, 3)>>

(***************************************************************************)
(* C2: the sequence gather_types returns holds no index entry twice, also  *)
(* when a type is reachable along two different paths.                     *)
(***************************************************************************)
C2_ClosureHasNoDuplicates ==
    pc = "done" =>
        \A i, j \in 1..Len(result.val) : i # j => result.val[i] # result.val[j]

----------------------------------------------------------------------------
(* Specification of get_types on files with nested messages, fields and    *)
(* enum values in any order of their numbers, and a full comment table     *)

\* a FieldDescriptorProto of scalar type; its name tells its place in the
\* declaration
ScalarField(i, number) ==
    [name            |-> <<"f", ToString(i)>>,
     number          |-> number,
     type_name       |-> None,
     type            |-> "String",
     label           |-> None,
     proto3_optional |-> FALSE]

\* an EnumValueDescriptorProto; its name tells its place in the declaration
EnumValue(i, number) == [name |-> <<"v", ToString(i)>>, number |-> number]

\* a DescriptorProto with the field numbers `numbers`, in declaration order
Message(name, numbers, nested_type, enum_type) ==
    [name        |-> name,
     field       |-> [i \in 1..Len(numbers) |-> ScalarField(i, numbers[i])],
     nested_type |-> nested_type,
     enum_type   |-> enum_type]

\* an EnumDescriptorProto with the value numbers `numbers`, in declaration order
Enum(name, numbers) ==
    [name  |-> name,
     value |-> [i \in 1..Len(numbers) |-> EnumValue(i, numbers[i])]]

\* what message A of an index request may nest: nothing, message I, message
\* I that nests J, messages I and K, or an enum X
Nestings == {"none", "I", "I.J", "I,K", "enum"}

NestedTypes(nesting) ==
    CASE nesting = "I"   -> <<Message(<<"I">>, <<1>>, <<>>, <<>>)>>
      [] nesting = "I.J" -> <<Message(<<"I">>, <<1>>,
                                      <<Message(<<"J">>, <<1>>, <<>>, <<>>)>>, <<>>)>>
      [] nesting = "I,K" -> <<Message(<<"I">>, <<1>>, <<>>, <<>>),
                              Message(<<"K">>, <<2, 1>>, <<>>, <<>>)>>
      [] OTHER           -> <<>>

NestedEnums(nesting) == IF nesting = "enum" THEN <<Enum(<<"X">>, <<0>>)>> ELSE <<>>

\* the structural paths of the declarations of a message at path `at`: the
\* message, its fields (2), its nested messages (3) and their parts
RECURSIVE MessagePaths(_, _)
MessagePaths(d, at) ==
    {at} \cup {at \o <<2, i - 1>> : i \in 1..Len(d.field)}
         \cup UNION {MessagePaths(d.nested_type[k], at \o <<3, k - 1>>) :
                        k \in 1..Len(d.nested_type)}

\* the structural paths of the declarations of a file: messages (4), enums
\* (5) with their values (2) and services (6) with their methods (2)
FilePaths(message_type, enum_type, service) ==
    UNION {MessagePaths(message_type[i], <<4, i - 1>>) : i \in 1..Len(message_type)}
    \cup {<<5, i - 1>> : i \in 1..Len(enum_type)}
    \cup UNION {{<<5, i - 1, 2, j - 1>> : j \in 1..Len(enum_type[i].value)} :
                   i \in 1..Len(enum_type)}
    \cup {<<6, i - 1>> : i \in 1..Len(service)}
    \cup UNION {{<<6, i - 1, 2, j - 1>> : j \in 1..Len(service[i].method)} :
                   i \in 1..Len(service)}

\* some order of the elements of a finite set
RECURSIVE SeqOf(_)
SeqOf(S) ==
    IF S = {} THEN <<>>
    ELSE LET x == CHOOSE x \in S : TRUE IN <<x>> \o SeqOf(S \ {x})

\* the comment written in front of the declaration at `path`
CommentAt(path) == ToString(path)

\* a SourceCodeInfo with one location for each declaration of the file, the
\* leading comment of each telling the declaration it stands at, the
\* trailing comment ending in white space
CommentTable(message_type, enum_type, service) ==
    LET paths == SeqOf(FilePaths(message_type, enum_type, service))
    IN  [i \in 1..Len(paths) |->
            [path              |-> paths[i],
             leading_comments  |-> Some(CommentAt(paths[i])),
             trailing_comments |-> Some(Comment("after", " "))]]

\* a FileDescriptorProto with its full comment table
CommentedFile(name, package, message_type, enum_type, service) ==
    [name             |-> name,
     package          |-> package,
     source_code_info |-> Some(CommentTable(message_type, enum_type, service)),
     message_type     |-> message_type,
     enum_type        |-> enum_type,
     service          |-> service]

\* the requests of the index specification: file f1 (package p) declares
\* message A with the given field numbers and nesting, message B when
\* `with_b`, and enum E with the given value numbers; file f2 (package
\* `package2`) declares message Z and enum Y
IndexRequest(numbers, nesting, with_b, values, package2) ==
    [proto_file |-> <<
        CommentedFile(<<"f", "1">>, <<"p">>,
            <<Message(<<"A">>, numbers, NestedTypes(nesting), NestedEnums(nesting))>>
                \o (IF with_b THEN <<Message(<<"B">>, <<2, 1>>, <<>>, <<>>)>> ELSE <<>>),
            <<Enum(<<"E">>, values)>>, <<>>),
        CommentedFile(<<"f", "2">>, package2,
            <<Message(<<"Z">>, <<1>>, <<>>, <<>>)>>, <<Enum(<<"Y">>, <<1, 0>>)>>,
            <<>>)>>]

\* the sequences of k pairwise different field numbers
FieldNumbers(k) ==
    {n \in [1..k -> 1..MaxFields] : \A i, j \in 1..k : i # j => n[i] # n[j]}

InitIndex ==
    /\ pc = "start"
    /\ \E kf \in 0..MaxFields, kv \in 0..MaxValues :
          \E numbers \in FieldNumbers(kf), values \in [1..kv -> 0..1],
             nesting \in Nestings, with_b \in BOOLEAN, package2 \in {<<"p">>, <<"q">>} :
              request = IndexRequest(numbers, nesting, with_b, values, package2)
    /\ types = Idle
    /\ original = Idle /\ fqn = Idle /\ ty = Idle /\ result = Idle
    /\ lookup_info = Idle /\ lookup_path = Idle /\ lookup_result = Idle
    /\ file_to_generate = Idle /\ services = Idle /\ page = Idle

\* one call of get_types(request)
BuildIndex ==
    /\ pc = "start"
    /\ types' = IF GetTypes(request).panic THEN Idle ELSE GetTypes(request).val
    /\ pc' = IF GetTypes(request).panic THEN "panic" ELSE "built"
    /\ UNCHANGED <<original, fqn, request, ty, result, commentVars, genVars>>

NextIndex == BuildIndex

SpecIndex == InitIndex /\ [][NextIndex]_vars

\* a message declaration and every message declared inside it, at any depth
RECURSIVE MessagesIn(_)
MessagesIn(d) == {d} \cup UNION {MessagesIn(d.nested_type[k]) : k \in 1..Len(d.nested_type)}

\* every message a file declares, nested ones included
DeclaredMessages(proto) ==
    UNION {MessagesIn(proto.message_type[i]) : i \in 1..Len(proto.message_type)}

\* every enum a file declares: at top level or inside a message
DeclaredEnums(proto) ==
    {proto.enum_type[i] : i \in 1..Len(proto.enum_type)}
    \cup UNION {{d.enum_type[i] : i \in 1..Len(d.enum_type)} : d \in DeclaredMessages(proto)}

\* the lookup of Method::from and gather_types: the bucket of `package` has
\* an entry of that kind and name
FoundInBucket(tys, package, kind, name) ==
    /\ package \in DOMAIN tys
    /\ \E k \in 1..Len(tys[package]) :
          tys[package][k].kind = kind /\ HasName(tys[package][k], name)

(***************************************************************************)
(* C7: once get_types has built the index, every message and every enum    *)
(* declared anywhere in the input files, messages nested in others at any  *)
(* depth included, is found by looking up the bucket of its package and    *)
(* scanning the bucket for its local name.                                 *)
(***************************************************************************)
C7_EveryDeclaredTypeIsInItsBucket ==
    pc = "built" =>
        \A n \in 1..Len(request.proto_file) :
            LET proto == request.proto_file[n]
            IN  /\ \A d \in DeclaredMessages(proto) :
                       FoundInBucket(types, proto.package, "Message", d.name)
                /\ \A e \in DeclaredEnums(proto) :
                       FoundInBucket(types, proto.package, "Enum", e.name)

\* the first entry of that name in the bucket of `package`
Entry(tys, package, name) ==
    tys[package][CHOOSE k \in 1..Len(tys[package]) :
                    /\ HasName(tys[package][k], name)
                    /\ \A l \in 1..(k - 1) : ~HasName(tys[package][l], name)]

\* a message declaration with the MessageType built from it, and the same
\* for the messages nested in it
RECURSIVE BuiltMessages(_, _)
BuiltMessages(d, built) ==
    {<<d, built>>} \cup UNION {BuiltMessages(d.nested_type[k], built.nested[k]) :
                                  k \in 1..Len(d.nested_type)}

\* `out` holds the elements of `declared` (told by name and number), in
\* ascending order of number, those of one number in their declared order
SortedStably(out, declared) ==
    /\ Len(out) = Len(declared)
    /\ \A k, l \in 1..Len(out) : k < l => out[k].number <= out[l].number
    /\ \E pi \in [1..Len(out) -> 1..Len(out)] :
          /\ \A k, l \in 1..Len(out) : k # l => pi[k] # pi[l]
          /\ \A k \in 1..Len(out) :
                /\ out[k].name = declared[pi[k]].name
                /\ out[k].number = declared[pi[k]].number
          /\ \A k, l \in 1..Len(out) :
                (k < l /\ out[k].number = out[l].number) => pi[k] < pi[l]

(***************************************************************************)
(* C8: in every built MessageType (nested ones included) the fields are a  *)
(* permutation of the declared fields in ascending order of field number,  *)
(* and in every built EnumType the values are a permutation of the         *)
(* declared values in ascending order of number, values of one number in   *)
(* their declared order.                                                   *)
(***************************************************************************)
C8_FieldsAndValuesSortedStably ==
    pc = "built" =>
        \A n \in 1..Len(request.proto_file) :
            LET proto == request.proto_file[n]
            IN  /\ \A i \in 1..Len(proto.message_type) :
                       \A pair \in BuiltMessages(proto.message_type[i],
                                       Entry(types, proto.package, proto.message_type[i].name)) :
                           SortedStably(pair[2].fields, pair[1].field)
                /\ \A i \in 1..Len(proto.enum_type) :
                       SortedStably(Entry(types, proto.package, proto.enum_type[i].name).values,
                                    proto.enum_type[i].value)

\* fields declared with the numbers 3, 1, 2 are built as 1, 2, 3, and of the
\* enum values declared with the numbers 1, 0, 1 the second comes first and
\* the first stays before the third
C8_Witness ==
    /\ pc = "built"
    /\ request = IndexRequest(<<3, 1, 2>>, "I,K", TRUE, <<1, 0, 1>>, <<"q">>)
    /\ [k \in 1..3 |-> types[<<"p">>][1].fields[k].number] = <<1, 2, 3>>
    /\ [k \in 1..3 |-> types[<<"p">>][1].fields[k].name]
           = <<<<"f", "2">>, <<"f", "3">>, <<"f", "1">>>>
    /\ [k \in 1..3 |-> types[<<"p">>][3].values[k].name]
           = <<<<"v", "2">>, <<"v", "1">>, <<"v", "3">>>>

----------------------------------------------------------------------------
(* Specification of get_description on arbitrary comment tables *)

\* the paths of the comment lookup: a path, a proper prefix of it, a proper
\* extension of it and a path of its length that differs in one place
LookupPaths == {<<4, 0>>, <<4>>, <<4, 0, 2, 0>>, <<4, 1>>}

\* the locations of a comment table: a path and an optional leading comment
Locations ==
    [path : LookupPaths, leading_comments : {None, Some("a"), Some("b")},
     trailing_comments : {None}]

InitComment ==
    /\ pc = "start"
    /\ \E k \in 0..MaxLocations : lookup_info \in [1..k -> Locations]
    /\ lookup_path = Idle /\ lookup_result = Idle
    /\ original = Idle /\ fqn = Idle /\ request = Idle /\ types = Idle
    /\ ty = Idle /\ result = Idle
    /\ file_to_generate = Idle /\ services = Idle /\ page = Idle

\* one call of get_description(info, target)
Lookup ==
    /\ pc = "start"
    /\ \E target \in LookupPaths :
          /\ lookup_path' = target
          /\ lookup_result' = GetDescription(lookup_info, target)
    /\ pc' = "done"
    /\ UNCHANGED <<original, fqn, request, types, ty, result, lookup_info, genVars>>

NextComment == Lookup

SpecComment == InitComment /\ [][NextComment]_vars

\* the places of the table whose path has the length of `target` and its
\* value at every position
ExactMatches(table, target) ==
    {i \in 1..Len(table) :
        /\ Len(table[i].path) = Len(target)
        /\ \A k \in 1..Len(target) : table[i].path[k] = target[k]}

(***************************************************************************)
(* C10: get_description returns the stored leading comment of the (first)  *)
(* entry whose path equals the target exactly, and the empty string when   *)
(* no entry has an equal path; an entry whose path is a proper prefix or a *)
(* proper extension of the target never matches.                           *)
(***************************************************************************)
C10_DescriptionOfExactPathOnly ==
    pc = "done" =>
        IF ExactMatches(lookup_info, lookup_path) = {}
        THEN lookup_result = ""
        ELSE LET first == CHOOSE i \in ExactMatches(lookup_info, lookup_path) :
                              \A j \in ExactMatches(lookup_info, lookup_path) : i <= j
             IN  lookup_result = (IF lookup_info[first].leading_comments = None THEN ""
                                ELSE lookup_info[first].leading_comments[1])

\* the table holds a proper prefix of the target before the target itself:
\* the comment of the second entry is returned
C10_Witness ==
    /\ pc = "done"
    /\ lookup_info = <<[path |-> <<4>>, leading_comments |-> Some("a"),
                         trailing_comments |-> None],
                        [path |-> <<4, 0>>, leading_comments |-> Some("b"),
                         trailing_comments |-> None]>>
    /\ lookup_path = <<4, 0>>
    /\ lookup_result = "b"

----------------------------------------------------------------------------
(* Specification of the generation of a page: get_types, get_services for  *)
(* one file name, Page::from                                               *)

\* the type names a method of a generation request may carry: message Req
\* of package a, message Resp of package b, a name bucket b lacks, and a
\* name in a package no file declares
MethodTargets ==
    {QName(<<"a">>, <<"R", "e", "q">>), QName(<<"b">>, <<"R", "e", "s", "p">>),
     QName(<<"b">>, <<"R", "e", "q">>), QName(<<"c">>, <<"R", "e", "q">>)}

\* the MethodOptions a method may carry: none, or some with the deprecated
\* flag unset, false or true
MethodOptions ==
    {None, Some([deprecated |-> None]),
     Some([deprecated |-> Some(FALSE)]), Some([deprecated |-> Some(TRUE)])}

\* a MethodDescriptorProto; its name tells its place in the service
MethodOf(i, input_type, output_type, options) ==
    [name             |-> <<"m", ToString(i)>>,
     input_type       |-> Some(input_type),
     output_type      |-> Some(output_type),
     options          |-> options,
     server_streaming |-> None,
     client_streaming |-> None]

\* the requests of the generation specification: file f1 (package a)
\* declares messages Req { .a.Resp f = 1; } and Resp {} and service S with
\* the methods `method`; file f2 (package b) declares message
\* Resp { .a.Req f = 1; }
GenRequest(method) ==
    [proto_file |-> <<
        CommentedFile(<<"f", "1">>, <<"a">>,
            <<MessageOf(<<"R", "e", "q">>, <<QName(<<"a">>, <<"R", "e", "s", "p">>)>>),
              MessageOf(<<"R", "e", "s", "p">>, <<>>)>>,
            <<>>,
            <<[name |-> <<"S">>, method |-> method, options |-> None]>>),
        CommentedFile(<<"f", "2">>, <<"b">>,
            <<MessageOf(<<"R", "e", "s", "p">>, <<QName(<<"a">>, <<"R", "e", "q">>)>>)>>,
            <<>>, <<>>)>>]

\* the file names get_services is asked for: the two files of the request
\* and one the request lacks
FileNames == {<<"f", "1">>, <<"f", "2">>, <<"f", "3">>}

\* The service has at most MaxMethods methods with any options.  All but at
\* most one (the method at `other`, if not 0) go from .a.Req to .a.Resp,
\* that one between any two of the MethodTargets.
InitGen ==
    /\ pc = "start"
    /\ \E k \in 0..MaxMethods :
          \E options \in [1..k -> MethodOptions], other \in 0..k,
             input_type \in MethodTargets, output_type \in MethodTargets :
              request = GenRequest([i \in 1..k |->
                  IF i = other
                  THEN MethodOf(i, input_type, output_type, options[i])
                  ELSE MethodOf(i, QName(<<"a">>, <<"R", "e", "q">>),
                                   QName(<<"a">>, <<"R", "e", "s", "p">>), options[i])])
    /\ types = Idle
    /\ file_to_generate = Idle /\ services = Idle /\ page = Idle
    /\ original = Idle /\ fqn = Idle /\ ty = Idle /\ result = Idle
    /\ lookup_info = Idle /\ lookup_path = Idle /\ lookup_result = Idle

\* the call of get_types(request)
IndexTypes ==
    /\ pc = "start"
    /\ types' = IF GetTypes(request).panic THEN Idle ELSE GetTypes(request).val
    /\ pc' = IF GetTypes(request).panic THEN "panic" ELSE "indexed"
    /\ UNCHANGED <<original, fqn, request, ty, result, commentVars, genVars>>

\* the call of get_services(request, file, types) for one file name
Services ==
    /\ pc = "indexed"
    /\ \E file \in FileNames :
          /\ file_to_generate' = file
          /\ services' = GetServices(request, file, types)
    /\ pc' = IF services'.panic THEN "panic"
             ELSE IF services'.val.is_ok THEN "services" ELSE "error"
    /\ UNCHANGED <<original, fqn, request, types, ty, result, commentVars, page>>

\* the call of Page::from(services, types)
Page ==
    /\ pc = "services"
    /\ page' = PageFrom(services.val.val, types)
    /\ pc' = IF page'.panic THEN "overflow" ELSE "page"
    /\ UNCHANGED <<original, fqn, request, types, ty, result, commentVars,
                   file_to_generate, services>>

NextGen == IndexTypes \/ Services \/ Page

SpecGen == InitGen /\ [][NextGen]_vars

\* the index entry a type reference names: the first entry of its local
\* name in the bucket of its package, or None when the bucket or the name
\* is absent
Resolve(tys, reference) ==
    LET name == FullyQualifiedTypeNameFrom(reference).val
    IN  IF name.package \in DOMAIN tys
        THEN FindNamed(tys, name.package, name.name)
        ELSE None

\* the file of the request get_services was asked for
Requested == CHOOSE proto \in {request.proto_file[n] : n \in 1..Len(request.proto_file)} :
                 proto.name = file_to_generate

\* the requested file is in the request, and the input and the output
\* reference of each of its methods name an entry of the index
EveryReferenceResolves ==
    /\ \E n \in 1..Len(request.proto_file) : request.proto_file[n].name = file_to_generate
    /\ \A i \in 1..Len(Requested.service) :
          \A k \in 1..Len(Requested.service[i].method) :
              /\ Resolve(types, Requested.service[i].method[k].input_type[1]) # None
              /\ Resolve(types, Requested.service[i].method[k].output_type[1]) # None

(***************************************************************************)
(* C3: for every method, the resolved input type is the index entry under  *)
(* the package and local name of the method's input reference, and the     *)
(* resolved output type the index entry under the package and local name   *)
(* of the method's output reference, also when the two are declared in     *)
(* different packages.                                                     *)
(***************************************************************************)
C3_MethodTypesResolvedUnderOwnPackage ==
    (pc \in {"services", "page", "error", "panic", "overflow"} /\ EveryReferenceResolves)
        => /\ pc \in {"services", "page"}
           /\ \A i \in 1..Len(services.val.val) :
                 \A k \in 1..Len(services.val.val[i].methods) :
                     LET method == Requested.service[i].method[k]
                         built  == services.val.val[i].methods[k]
                     IN  /\ Some(built.input_type) = Resolve(types, method.input_type[1])
                         /\ Some(built.output_type) = Resolve(types, method.output_type[1])

\* the requested file has a method whose input or output reference names an
\* absent bucket or a name absent from its bucket
HasUnresolvedReference ==
    /\ \E n \in 1..Len(request.proto_file) : request.proto_file[n].name = file_to_generate
    /\ \E i \in 1..Len(Requested.service) :
          \E k \in 1..Len(Requested.service[i].method) :
              \/ Resolve(types, Requested.service[i].method[k].input_type[1]) = None
              \/ Resolve(types, Requested.service[i].method[k].output_type[1]) = None

(***************************************************************************)
(* C4: when a method's input or output reference names a package bucket    *)
(* absent from the index, or a type name absent from that bucket,          *)
(* get_services returns an error value (position "error"): no Service list *)
(* is produced and the process does not panic.                             *)
(***************************************************************************)
C4_UnresolvedReferenceIsAnError ==
    (pc \in {"services", "page", "error", "panic", "overflow"} /\ HasUnresolvedReference)
        => (pc = "error" /\ ~services.panic /\ ~services.val.is_ok)

\* the names of the elements of a sequence, in order
Names(seq) == [k \in 1..Len(seq) |-> seq[k].name]

\* the place of the method of that name in the service's declaration
Place(method, name) == CHOOSE k \in 1..Len(method) : method[k].name = name

\* `list` keeps the order of the declaration `method`
InDeclaredOrder(list, method) ==
    \A a, b \in 1..Len(list) : a < b => Place(method, list[a].name) < Place(method, list[b].name)

(***************************************************************************)
(* C9: render's Service::from places each method of a service in exactly   *)
(* one of the two lists: `methods` holds exactly the methods whose         *)
(* deprecated flag is false (unset counts as false), `deprecated_methods`  *)
(* exactly those whose flag is true, each list in declaration order.       *)
(***************************************************************************)
C9_MethodsPartitionedByDeprecation ==
    pc = "page" =>
        \A i \in 1..Len(page.val.services) :
            LET view   == page.val.services[i]
                method == Requested.service[i].method
                Flag(k) == /\ method[k].options # None
                           /\ method[k].options[1].deprecated = Some(TRUE)
            IN  /\ Len(view.methods) + Len(view.deprecated_methods) = Len(method)
                /\ \A k \in 1..Len(method) :
                      /\ Flag(k) <=> \E l \in 1..Len(view.deprecated_methods) :
                                        view.deprecated_methods[l].name = method[k].name
                      /\ ~Flag(k) <=> \E l \in 1..Len(view.methods) :
                                         view.methods[l].name = method[k].name
                /\ \A l \in 1..Len(view.methods) : ~view.methods[l].deprecated
                /\ \A l \in 1..Len(view.deprecated_methods) : view.deprecated_methods[l].deprecated
                /\ InDeclaredOrder(view.methods, method)
                /\ InDeclaredOrder(view.deprecated_methods, method)

\* of three methods the second is deprecated, the first has no options and
\* the third has the flag unset: the first and the third are the methods,
\* in that order, the second is the deprecated method
C9_Witness ==
    /\ pc = "page"
    /\ file_to_generate = <<"f", "1">>
    /\ Len(Requested.service[1].method) = 3
    /\ Requested.service[1].method[1].options = None
    /\ Requested.service[1].method[2].options = Some([deprecated |-> Some(TRUE)])
    /\ Requested.service[1].method[3].options = Some([deprecated |-> None])
    /\ Names(page.val.services[1].methods) = <<<<"m", "1">>, <<"m", "3">>>>
    /\ Names(page.val.services[1].deprecated_methods) = <<<<"m", "2">>>>

----------------------------------------------------------------------------
(* Specification of the classification of the methods of one service by    *)
(* their streaming flags                                                   *)

\* an optional bool field of a descriptor: unset, false or true
Flags == {None, Some(FALSE), Some(TRUE)}

\* a MethodDescriptorProto of the request's service with the two streaming
\* flags as given
StreamingMethod(i, server_streaming, client_streaming) ==
    [name             |-> <<"m", ToString(i)>>,
     input_type       |-> Some(QName(<<"a">>, <<"R", "e", "q">>)),
     output_type      |-> Some(QName(<<"a">>, <<"R", "e", "s", "p">>)),
     options          |-> None,
     server_streaming |-> server_streaming,
     client_streaming |-> client_streaming]

\* The service of file f1 has at most MaxMethods methods from .a.Req to
\* .a.Resp, each with any streaming flags.
InitCall ==
    /\ pc = "start"
    /\ \E k \in 0..MaxMethods :
          \E server \in [1..k -> Flags], client \in [1..k -> Flags] :
              request = GenRequest([i \in 1..k |->
                            StreamingMethod(i, server[i], client[i])])
    /\ types = Idle
    /\ file_to_generate = Idle /\ services = Idle /\ page = Idle
    /\ original = Idle /\ fqn = Idle /\ ty = Idle /\ result = Idle
    /\ lookup_info = Idle /\ lookup_path = Idle /\ lookup_result = Idle

\* get_types(request) and get_services(request, "f1", types): every method
\* of the service is built by Method::from, which classifies it
Classify ==
    /\ pc = "start"
    /\ types' = IF GetTypes(request).panic THEN Idle ELSE GetTypes(request).val
    /\ file_to_generate' = <<"f", "1">>
    /\ services' = IF GetTypes(request).panic THEN Panic
                   ELSE GetServices(request, <<"f", "1">>, types')
    /\ pc' = IF services'.panic THEN "panic"
             ELSE IF services'.val.is_ok THEN "services" ELSE "error"
    /\ UNCHANGED <<original, fqn, request, ty, result, commentVars, page>>

NextCall == Classify

SpecCall == InitCall /\ [][NextCall]_vars

\* a streaming flag is on when it is set to true; unset counts as false
IsOn(flag) == flag = Some(TRUE)

(***************************************************************************)
(* C11: the call type of every method built is the one its two streaming   *)
(* flags (server, client) give, an unset flag counting as false:           *)
(* (true, true) BidiStreaming, (true, false) ServerStreaming,              *)
(* (false, true) ClientStreaming, (false, false) Unary.                    *)
(***************************************************************************)
C11_CallTypeFromStreamingFlags ==
    pc = "services" =>
        LET declared == request.proto_file[1].service[1].method
            built    == services.val.val[1].methods
        IN  /\ Len(built) = Len(declared)
            /\ \A i \in 1..Len(declared) :
                  /\ built[i].call_type \in
                        {"BidiStreaming", "ServerStreaming", "ClientStreaming", "Unary"}
                  /\ built[i].call_type = "BidiStreaming"
                        <=> (IsOn(declared[i].server_streaming)
                             /\ IsOn(declared[i].client_streaming))
                  /\ built[i].call_type = "ServerStreaming"
                        <=> (IsOn(declared[i].server_streaming)
                             /\ ~IsOn(declared[i].client_streaming))
                  /\ built[i].call_type = "ClientStreaming"
                        <=> (~IsOn(declared[i].server_streaming)
                             /\ IsOn(declared[i].client_streaming))
                  /\ built[i].call_type = "Unary"
                        <=> (~IsOn(declared[i].server_streaming)
                             /\ ~IsOn(declared[i].client_streaming))

\* a service is built whose methods are, in order, server streaming with
\* the client flag unset, client streaming with the server flag false, and
\* unary with both flags unset
C11_Witness ==
    /\ pc = "services"
    /\ Len(services.val.val[1].methods) = 3
    /\ request.proto_file[1].service[1].method[1].server_streaming = Some(TRUE)
    /\ request.proto_file[1].service[1].method[1].client_streaming = None
    /\ services.val.val[1].methods[1].call_type = "ServerStreaming"
    /\ request.proto_file[1].service[1].method[2].server_streaming = Some(FALSE)
    /\ request.proto_file[1].service[1].method[2].client_streaming = Some(TRUE)
    /\ services.val.val[1].methods[2].call_type = "ClientStreaming"
    /\ request.proto_file[1].service[1].method[3].server_streaming = None
    /\ request.proto_file[1].service[1].method[3].client_streaming = None
    /\ services.val.val[1].methods[3].call_type = "Unary"

----------------------------------------------------------------------------
(* Specification of the generation of a page from a request some of whose  *)
(* files were compiled without source code info                            *)

\* the request `req` with the source_code_info of the files at `missing`
\* absent
WithoutInfo(req, missing) ==
    [proto_file |-> [n \in 1..Len(req.proto_file) |->
        IF n \in missing
        THEN [req.proto_file[n] EXCEPT !.source_code_info = None]
        ELSE req.proto_file[n]]]

\* The service of file f1 has at most MaxMethods methods from .a.Req to
\* .a.Resp with any options; each of the two files has its comment table
\* or lacks it.
InitInfo ==
    /\ pc = "start"
    /\ \E k \in 0..MaxMethods :
          \E options \in [1..k -> MethodOptions], missing \in SUBSET {1, 2} :
              request = WithoutInfo(
                  GenRequest([i \in 1..k |->
                      MethodOf(i, QName(<<"a">>, <<"R", "e", "q">>),
                               QName(<<"a">>, <<"R", "e", "s", "p">>), options[i])]),
                  missing)
    /\ types = Idle
    /\ file_to_generate = Idle /\ services = Idle /\ page = Idle
    /\ original = Idle /\ fqn = Idle /\ ty = Idle /\ result = Idle
    /\ lookup_info = Idle /\ lookup_path = Idle /\ lookup_result = Idle

NextInfo == IndexTypes \/ Services \/ Page

SpecInfo == InitInfo /\ [][NextInfo]_vars

\* a file of the request lacks its comment table
SomeFileLacksInfo ==
    \E n \in 1..Len(request.proto_file) :
        request.proto_file[n].source_code_info = None

(***************************************************************************)
(* C12: when a file of the request lacks its comment table, be it the      *)
(* requested file or another one, the generation ends in the               *)
(* "no source code info" error value (position "error"): it neither        *)
(* panics nor produces services or a page.                                 *)
(***************************************************************************)
C12_MissingSourceInfoIsAnError ==
    (SomeFileLacksInfo /\ pc # "start")
        => /\ pc = "error"
           /\ ~services.panic
           /\ ~services.val.is_ok
           /\ services.val.err = "no source code info"

----------------------------------------------------------------------------
(* main.rs: strip_qualified_package_name, and the specification of one     *)
(* call of it                                                              *)

\* str::starts_with(prefix)
StartsWith(s, prefix) ==
    Len(prefix) <= Len(s) /\ SubSeq(s, 1, Len(prefix)) = prefix

\* fn strip_qualified_package_name(maybe_qualified, package)
StripQualifiedPackageName(maybe_qualified, package) ==
    LET tail == Slice(maybe_qualified, 1, Len(maybe_qualified))
    IN  IF tail.panic THEN Panic                    \* [1..] of the empty string
        ELSE IF StartsWith(tail.val, package)
        THEN Slice(maybe_qualified, Len(package) + 2, Len(maybe_qualified))
        ELSE Ok(maybe_qualified)

\* the longest package name of the specification
MaxPackage == 3

\* package names: dotted identifiers, or the empty name of a file without a
\* package statement
Packages ==
    {p \in Strings(MaxPackage) :
        /\ p # <<>> => (p[1] # "." /\ p[Len(p)] # ".")
        /\ \A i \in 1..(Len(p) - 1) : ~(p[i] = "." /\ p[i + 1] = ".")}

InitStrip ==
    /\ pc = "start"
    /\ \E q \in Strings(MaxLen), p \in Packages :
          original = [maybe_qualified |-> q, package |-> p]
    /\ result = Idle
    /\ fqn = Idle /\ request = Idle /\ types = Idle /\ ty = Idle
    /\ lookup_info = Idle /\ lookup_path = Idle /\ lookup_result = Idle
    /\ file_to_generate = Idle /\ services = Idle /\ page = Idle

\* one call of strip_qualified_package_name(maybe_qualified, package)
Strip ==
    /\ pc = "start"
    /\ result' = StripQualifiedPackageName(original.maybe_qualified, original.package)
    /\ pc' = IF result'.panic THEN "panic" ELSE "done"
    /\ UNCHANGED <<original, fqn, request, types, ty, commentVars, genVars>>

NextStrip == Strip

SpecStrip == InitStrip /\ [][NextStrip]_vars

\* q is the fully qualified form of a name of package p: ".", p, "." and
\* the rest
QualifiedWith(q, p) == StartsWith(q, (<<".">> \o p) \o <<".">>)

(***************************************************************************)
(* C13: a call of strip_qualified_package_name(q, p) always returns; it    *)
(* returns the part of q behind "." p "." when q starts with that, and q   *)
(* itself in every other case: an unqualified q, or a q qualified with     *)
(* another package, also one whose name begins with p.                     *)
(***************************************************************************)
C13_StripsOnlyTheQualifyingPackage ==
    pc # "start" =>
        LET q == original.maybe_qualified
            p == original.package
        IN  /\ pc = "done"
            /\ ~result.panic
            /\ result.val = IF QualifiedWith(q, p)
                            THEN SubSeq(q, Len(p) + 3, Len(q))
                            ELSE q

----------------------------------------------------------------------------
(* The closure of a type in an index without reference cycles *)

\* the entries a message's fields resolve to, in the order of the fields
\* and, for one field, of its bucket: a field of scalar type, one whose
\* bucket is absent and one whose name the bucket lacks resolve to none
RECURSIVE ResolvedFrom(_, _, _)
ResolvedFrom(tys, fields, i) ==
    IF i > Len(fields) THEN <<>>
    ELSE LET named == IF fields[i].ty.kind = "Custom"
                      THEN Named(tys, fields[i].ty, 1) ELSE {}
             bucket == IF named = {} THEN <<>> ELSE tys[fields[i].ty.name.package]
             here == SelectSeq([k \in 1..Len(bucket) |->
                                   TypeRef(fields[i].ty.name.package, k)],
                               LAMBDA r : r.idx \in named)
         IN  here \o ResolvedFrom(tys, fields, i + 1)

\* the entries the fields of entry r resolve to; none for an enum
References(tys, r) ==
    IF Deref(tys, r).kind = "Message"
    THEN ResolvedFrom(tys, Deref(tys, r).fields, 1) ELSE <<>>

\* depth-first pre-order: `todo` holds the entries still to be visited, the
\* next one first, `seen` the entries discovered so far in their order of
\* discovery; an entry is appended when first met, and the entries it
\* refers to are visited before the rest
RECURSIVE PreOrder(_, _, _)
PreOrder(tys, todo, seen) ==
    IF todo = <<>> THEN seen
    ELSE IF \E k \in 1..Len(seen) : seen[k] = Head(todo)
         THEN PreOrder(tys, Tail(todo), seen)
         ELSE PreOrder(tys, References(tys, Head(todo)) \o Tail(todo),
                       Append(seen, Head(todo)))

\* the entries reachable from entry r, in depth-first pre-order
ReachableInPreOrder(tys, r) == PreOrder(tys, References(tys, r), <<>>)

\* no entry of the index is reachable from itself
Acyclic(tys) ==
    \A r \in AllRefs(tys) :
        \A k \in 1..Len(ReachableInPreOrder(tys, r)) : ReachableInPreOrder(tys, r)[k] # r

(***************************************************************************)
(* C14: on an index without reference cycles gather_types(T) returns, and  *)
(* returns exactly the entries reachable from T through the message fields *)
(* whose reference resolves, in depth-first pre-order, each entry once at  *)
(* the place of its first discovery; an enum adds no entries and a field   *)
(* whose bucket is absent is stepped over.                                 *)
(***************************************************************************)
C14_ClosureIsReachableInPreOrder ==
    (pc # "start" /\ Acyclic(types))
        => /\ pc = "done"
           /\ result.val = ReachableInPreOrder(types, ty)

----------------------------------------------------------------------------
(* The comments of the messages of the index *)

\* a message declaration at structural path `at` and nesting depth `depth`
\* with the MessageType built from it, and the same for the messages nested
\* in it, the k-th at path `at` 3 k and one level deeper
RECURSIVE BuiltAt(_, _, _, _)
BuiltAt(d, built, at, depth) ==
    {[declared |-> d, built |-> built, at |-> at, depth |-> depth]}
    \cup UNION {BuiltAt(d.nested_type[k], built.nested[k], at \o <<3, k - 1>>, depth + 1) :
                   k \in 1..Len(d.nested_type)}

\* the message nodes of the index built from the file, each with its
\* declaration, its structural path and its nesting depth
MessageNodes(tys, proto) ==
    UNION {BuiltAt(proto.message_type[i],
                   Entry(tys, proto.package, proto.message_type[i].name),
                   <<4, i - 1>>, 0) : i \in 1..Len(proto.message_type)}

\* the node carries the comments of its own declaration: its description is
\* the comment at its path, and each of its fields has the leading comment
\* at the path of that field's declaration in this message
HasOwnComments(node) ==
    /\ node.built.description = CommentAt(node.at)
    /\ \A k \in 1..Len(node.built.fields) :
          \E j \in 1..Len(node.declared.field) :
              /\ node.declared.field[j].name = node.built.fields[k].name
              /\ node.built.fields[k].leading_comments = CommentAt(node.at \o <<2, j - 1>>)

(***************************************************************************)
(* C15: every message of the built index, at top level or nested, has the  *)
(* nesting depth of its declaration (a nested message one more than its    *)
(* parent) and carries the comments stored at its own structural path: a   *)
(* message nested in the i-th top-level message is not described by the    *)
(* comment at [4, i], and its j-th field does not get the comment at       *)
(* [4, i, 2, j] of the enclosing message's j-th field.                     *)
(***************************************************************************)
C15_NodesCommentedAtOwnPath ==
    pc = "built" =>
        \A n \in 1..Len(request.proto_file) :
            \A node \in MessageNodes(types, request.proto_file[n]) :
                /\ node.built.depth = node.depth
                /\ HasOwnComments(node)

=============================================================================
